---- MODULE Spec2Model ----
(***************************************************************************)
(* Hyderabad Metro backend: the in-memory graph built from the line and    *)
(* station records (MetroGraph._build_graph), the route search             *)
(* (MetroGraph.find_shortest_path) and the HTTP handlers that change the   *)
(* records and answer route queries (src/main.py).                         *)
(*                                                                         *)
(* Units.  Fares are whole currency units (the code's floats 0.0, 2.0,     *)
(* 5.0, 10.0 and their sums are exact).  Times are kept in tenths of a     *)
(* minute (2.5 minutes = 25, 5.0 minutes = 50) and are turned into the     *)
(* code's string by FormatMinutes.                                         *)
(*                                                                         *)
(* Handlers are `async def` bodies without an await: the event loop runs   *)
(* each one to completion before the next one starts, so each handler is   *)
(* one action.                                                             *)
(*                                                                         *)
(* Library behaviour outside src/ is taken as the code intends it: the     *)
(* schemas.LineChangeDetail(...) call yields the record with its three     *)
(* fields, and station.line.name yields the name the line had when the     *)
(* graph was built.                                                        *)
(***************************************************************************)
EXTENDS Integers, Sequences, FiniteSets, TLC

\* ------------------------------------------------------------------
\* Bounds of the model
\* ------------------------------------------------------------------

\* Largest number of station rows the station-creation handler is let to reach.
MaxStations == 2

\* Largest number of stations of a branch line in the tables the application
\* starts on (SpecRoute).
MaxBranch == 2

\* Station names: of the rows the application starts on, and of route queries.
StationNames == {"A", "B", "C", "D"}

\* Station names the station-creation requests carry.
NewStationNames == {"A", "B"}

\* Line ids the lines table hands out, and the ids requests carry.
LineIds == {1, 2}

\* station_number_on_line values the station-creation requests carry: the
\* schema's field is a plain int (schemas.py:27), so a negative one is accepted.
Numbers == {-1, 2}

\* Line names and colours requests are drawn from.
LineNames == {"Red", "Blue"}

Colors == {"c"}

\* ------------------------------------------------------------------
\* Program constants
\* ------------------------------------------------------------------

\* float('inf'): larger than every station count.
Infinity == 1000000

\* Ride edge: "time": 2.5 (in tenths of a minute).
RideTime == 25

\* Transfer edge: "time": 5.0 (in tenths of a minute).
TransferTime == 50

\* Transfer edge: "fare": 2.0.
TransferFare == 2

\* new_fare += 5.0 after the first stations of a segment.
ExtraFare == 5

\* final_fare += 10.0.
BaseFare == 10

\* stations_in_segment_for_fare of the start entry.
StartSegment == 1

\* new_stations_in_segment_for_fare <= 2.
FreeStations == 2

VARIABLES
    lines,        \* the rows of table "lines", in id order
    stations,     \* the rows of table "stations", in id order
    line_id_seq,  \* the last id the lines table handed out
    metro_graph,  \* the global MetroGraph instance
    request,      \* the request the last handler served
    search,       \* the locals find_shortest_path ended with, for the last route query
    response      \* the response of the last handler

vars == <<lines, stations, line_id_seq, metro_graph, request, search, response>>

\* ------------------------------------------------------------------
\* Helpers
\* ------------------------------------------------------------------

Range(s) == {s[i] : i \in 1..Len(s)}

\* [x for x in s if P(x)]
RECURSIVE SelectSeqBy(_, _)
SelectSeqBy(s, keep) ==
    IF s = <<>> THEN <<>>
    ELSE IF Head(s) \in keep THEN <<Head(s)>> \o SelectSeqBy(Tail(s), keep)
    ELSE SelectSeqBy(Tail(s), keep)

\* One step of a stable insertion sort on station_number_on_line.
RECURSIVE InsertByNumber(_, _)
InsertByNumber(sorted, s) ==
    IF sorted = <<>> THEN <<s>>
    ELSE IF s.station_number_on_line < Head(sorted).station_number_on_line
         THEN <<s>> \o sorted
         ELSE <<Head(sorted)>> \o InsertByNumber(Tail(sorted), s)

\* SortedByNumber without the sort: the rows in the order the query returns them.
SortedByNumber_unsorted(xs) == xs

\* sorted(xs, key=lambda s: s.station_number_on_line): ascending and stable.
RECURSIVE SortedByNumber(_)
SortedByNumber(xs) ==
    IF xs = <<>> THEN <<>>
    ELSE InsertByNumber(SortedByNumber(SubSeq(xs, 1, Len(xs) - 1)), xs[Len(xs)])

\* self.graph[k].append(e) on a defaultdict(list).
AppendEdge(g, k, e) ==
    IF k \in DOMAIN g THEN [g EXCEPT ![k] = Append(@, e)]
    ELSE g @@ (k :> <<e>>)

\* station.line.name: the name of the line row a station row refers to.
LineNameOf(ls, id) ==
    LET hit == {i \in 1..Len(ls) : ls[i].id = id}
    IN IF hit = {} THEN "" ELSE ls[CHOOSE i \in hit : TRUE].name

\* ------------------------------------------------------------------
\* MetroGraph._build_graph
\* ------------------------------------------------------------------

\* The ride edge s1 -> s2 of line `line_id`.
RideEdge(s1, s2, line_id) ==
    [to |-> s2.id, stations |-> 1, time |-> RideTime,
     fare |-> IF s1.station_number_on_line >= 2 THEN ExtraFare ELSE 0,
     line_id |-> line_id]

\* The transfer edge s1 -> s2.
TransferEdge(s1, s2) ==
    [to |-> s2.id, stations |-> 0, time |-> TransferTime, fare |-> TransferFare,
     line_change |-> TRUE, from_line_id |-> s1.line_id, to_line_id |-> s2.line_id]

\* for i in range(len(sorted_stations) - 1): both directions of pair i, i+1.
RECURSIVE AddLineEdges(_, _, _, _)
AddLineEdges(g, sorted_stations, i, line_id) ==
    IF i > Len(sorted_stations) - 1 THEN g
    ELSE LET s1 == sorted_stations[i]
             s2 == sorted_stations[i + 1]
             g1 == AppendEdge(g, s1.id, RideEdge(s1, s2, line_id))
             g2 == AppendEdge(g1, s2.id, RideEdge(s2, s1, line_id))
         IN AddLineEdges(g2, sorted_stations, i + 1, line_id)

\* for line in lines: the ride edges of every line, in the order of the lines.
RECURSIVE AddRideEdges(_, _, _)
AddRideEdges(g, ls, sts) ==
    IF ls = <<>> THEN g
    ELSE LET line == Head(ls)
             on_line == SelectSeqBy(sts, {s \in Range(sts) : s.line_id = line.id})
         IN AddRideEdges(AddLineEdges(g, SortedByNumber(on_line), 1, line.id),
                         Tail(ls), sts)

\* self.station_map: name -> the station rows of that name, in row order.
StationMap(sts) ==
    [n \in {s.name : s \in Range(sts)} |->
        SelectSeqBy(sts, {s \in Range(sts) : s.name = n})]

\* The keys of station_map in insertion order (the order dict.items() follows).
RECURSIVE NameOrder(_)
NameOrder(sts) ==
    IF sts = <<>> THEN <<>>
    ELSE LET before == NameOrder(SubSeq(sts, 1, Len(sts) - 1))
             n == sts[Len(sts)].name
         IN IF n \in Range(before) THEN before ELSE Append(before, n)

\* AllInterchange with any() for all().
AllInterchange_any(group) == \E k \in 1..Len(group) : group[k].is_interchange

\* all(s.is_interchange for s in group)
AllInterchange(group) == \A k \in 1..Len(group) : group[k].is_interchange

\* for i ..: for j in range(i + 1, ..): the transfer edges of one name group.
RECURSIVE AddGroupEdges(_, _, _, _)
AddGroupEdges(g, group, i, j) ==
    IF i > Len(group) THEN g
    ELSE IF j > Len(group) THEN AddGroupEdges(g, group, i + 1, i + 2)
    ELSE LET s1 == group[i]
             s2 == group[j]
             g2 == IF s1.line_id # s2.line_id
                   THEN AppendEdge(AppendEdge(g, s1.id, TransferEdge(s1, s2)),
                                   s2.id, TransferEdge(s2, s1))
                   ELSE g
         IN AddGroupEdges(g2, group, i, j + 1)

\* for station_name, group in self.station_map.items(): ...
RECURSIVE AddTransferEdges(_, _, _)
AddTransferEdges(g, names, smap) ==
    IF names = <<>> THEN g
    ELSE LET group == smap[Head(names)]
             g2 == IF Len(group) > 1 /\ AllInterchange(group)
                   THEN AddGroupEdges(g, group, 1, 2)
                   ELSE g
         IN AddTransferEdges(g2, Tail(names), smap)

\* The empty defaultdict(list).
EmptyGraph == [k \in {} |-> <<>>]

\* MetroGraph(db): the three maps built from the rows the session returns.
\* line_names is what station.line.name resolves to for the rows of this build.
MetroGraph(ls, sts) ==
    [graph |-> AddTransferEdges(AddRideEdges(EmptyGraph, ls, sts),
                                NameOrder(sts), StationMap(sts)),
     station_map |-> StationMap(sts),
     station_id_to_obj |-> [id \in {s.id : s \in Range(sts)} |->
                               CHOOSE s \in Range(sts) : s.id = id],
     line_names |-> [id \in {l.id : l \in Range(ls)} |-> LineNameOf(ls, id)]]

\* ------------------------------------------------------------------
\* MetroGraph.find_shortest_path
\* ------------------------------------------------------------------

\* Python's list comparison a < b on lists of ids.
RECURSIVE ListLess(_, _)
ListLess(a, b) ==
    IF b = <<>> THEN FALSE
    ELSE IF a = <<>> THEN TRUE
    ELSE IF Head(a) # Head(b) THEN Head(a) < Head(b)
    ELSE ListLess(Tail(a), Tail(b))

\* Python's tuple comparison a < b on queue entries
\* (stations_count, current_id, path_ids, fare, time, line, segment).
EntryLess(a, b) ==
    IF a.count # b.count THEN a.count < b.count
    ELSE IF a.id # b.id THEN a.id < b.id
    ELSE IF a.path_ids # b.path_ids THEN ListLess(a.path_ids, b.path_ids)
    ELSE IF a.fare # b.fare THEN a.fare < b.fare
    ELSE IF a.time # b.time THEN a.time < b.time
    ELSE IF a.line_id # b.line_id THEN a.line_id < b.line_id
    ELSE a.segment < b.segment

\* heapq.heappop(pq): the least entry of the queue.
HeapMin(pq) == CHOOSE e \in pq : \A o \in pq : o = e \/ EntryLess(e, o)

\* The locals shared by the runs: min_total_stations and the best_* holders.
NoBest ==
    [min_total_stations |-> Infinity, best_path_ids |-> <<>>, best_fare |-> 0,
     best_time |-> 0, best_interchanges |-> <<>>, best_line_changes |-> <<>>]

\* The locals one run starts with (lines 124-139), for start row s.
StartRun(mg, graph, best, s) ==
    [graph |-> graph,
     best |-> best,
     pq |-> {[count |-> 0, id |-> s.id, path_ids |-> <<s.id>>, fare |-> 0,
              time |-> 0, line_id |-> s.line_id, segment |-> StartSegment]},
     distances |-> [id \in DOMAIN mg.station_id_to_obj |->
                       IF id = s.id THEN 0 ELSE Infinity],
     path_info |-> (s.id :> [path_ids |-> <<s.id>>, fare |-> 0, time |-> 0,
                             current_line_id |-> s.line_id,
                             stations_in_segment |-> StartSegment,
                             interchanges |-> <<>>, line_changes |-> <<>>]),
     visited |-> {}]

\* SegmentAfterTransfer counting the station the transfer arrives at.
SegmentAfterTransfer_arrival == StartSegment

\* new_stations_in_segment_for_fare after a transfer edge.
SegmentAfterTransfer == 0

\* RideFare with the comparison off by one: only the start station is free.
RideFare_strict(segment) == IF segment < FreeStations THEN 0 ELSE ExtraFare

\* The fare a ride hop adds, given the segment count after the hop.
RideFare(segment) == IF segment <= FreeStations THEN 0 ELSE ExtraFare

\* Lines 166-195: the queue entry and the path_info record the edge e out of
\* the popped entry cur leads to.
Traverse(mg, cur, info, e) ==
    LET name == mg.station_id_to_obj[cur.id].name
        change == "line_change" \in DOMAIN e /\ e.line_change
        segment == IF change THEN SegmentAfterTransfer ELSE cur.segment + 1
        fare == IF change THEN cur.fare + e.fare ELSE cur.fare + RideFare(segment)
        interchanges == IF change /\ name \notin Range(info.interchanges)
                        THEN Append(info.interchanges, name)
                        ELSE info.interchanges
        line_changes ==
            IF change
            THEN Append(info.line_changes,
                        [from |-> mg.line_names[mg.station_id_to_obj[cur.id].line_id],
                         to |-> mg.line_names[mg.station_id_to_obj[e.to].line_id],
                         at |-> name])
            ELSE info.line_changes
    IN [count |-> cur.count + e.stations,
        id |-> e.to,
        path_ids |-> Append(cur.path_ids, e.to),
        fare |-> fare,
        time |-> cur.time + e.time,
        line_id |-> IF change THEN e.to_line_id ELSE e.line_id,
        segment |-> segment,
        interchanges |-> interchanges,
        line_changes |-> line_changes]

\* Improves with <= for <: a tie overwrites the per-node record and pushes a
\* second queue entry for the node.
Improves_or_equal(new_count, known) == new_count <= known

\* if new_total_stations_count < distances.get(neighbor_id, inf)
Improves(new_count, known) == new_count < known

\* Lines 162-211: for neighbor_id, edge_weights in self.graph[current_station_id].
RECURSIVE Relax(_, _, _, _, _)
Relax(mg, cur, edges, k, st) ==
    IF k > Len(edges) THEN st
    ELSE LET n == Traverse(mg, cur, st.path_info[cur.id], edges[k])
         IN IF Improves(n.count, st.distances[n.id])
            THEN Relax(mg, cur, edges, k + 1,
                       [st EXCEPT
                          !.distances[n.id] = n.count,
                          !.path_info =
                              (n.id :> [path_ids |-> n.path_ids, fare |-> n.fare,
                                        time |-> n.time,
                                        current_line_id |-> n.line_id,
                                        stations_in_segment |-> n.segment,
                                        interchanges |-> n.interchanges,
                                        line_changes |-> n.line_changes]) @@ @,
                          !.pq = @ \cup {[count |-> n.count, id |-> n.id,
                                          path_ids |-> n.path_ids, fare |-> n.fare,
                                          time |-> n.time, line_id |-> n.line_id,
                                          segment |-> n.segment]}])
            ELSE Relax(mg, cur, edges, k + 1, st)

\* Better that keeps the first candidate found, whatever comes later.
Better_first(count, best) == best.min_total_stations = Infinity

\* Better with <= for <: a candidate that ties the best one replaces it.
Better_or_equal(count, best) == count <= best.min_total_stations

\* if current_stations_count < min_total_stations
Better(count, best) == count < best.min_total_stations

\* Lines 153-159: the best_* holders after an end node was popped as entry cur.
Candidate(best, cur, info) ==
    IF Better(cur.count, best)
    THEN [min_total_stations |-> cur.count, best_path_ids |-> cur.path_ids,
          best_fare |-> cur.fare, best_time |-> cur.time,
          best_interchanges |-> info.interchanges,
          best_line_changes |-> info.line_changes]
    ELSE best

\* self.graph[k] read on the defaultdict: a missing key is inserted with [].
Touch(graph, k) == IF k \in DOMAIN graph THEN graph ELSE graph @@ (k :> <<>>)

\* Lines 141-211: while pq.
RECURSIVE Drain(_, _, _)
Drain(mg, end_name, st) ==
    IF st.pq = {} THEN st
    ELSE LET cur == HeapMin(st.pq)
             popped == [st EXCEPT !.pq = @ \ {cur}]
         IN IF cur.id \in st.visited THEN Drain(mg, end_name, popped)
            ELSE LET seen == [popped EXCEPT !.visited = @ \cup {cur.id}]
                 IN IF mg.station_id_to_obj[cur.id].name = end_name
                    THEN Drain(mg, end_name,
                               [seen EXCEPT !.best =
                                   Candidate(@, cur, st.path_info[cur.id])])
                    ELSE LET read == [seen EXCEPT !.graph = Touch(@, cur.id)]
                         IN Drain(mg, end_name,
                                  Relax(mg, cur, read.graph[cur.id], 1, read))

\* Runs without the loop: only the first start node is searched from.
Runs_first_only(mg, end_name, start_nodes, graph, best) ==
    LET st == Drain(mg, end_name, StartRun(mg, graph, best, Head(start_nodes)))
    IN [graph |-> st.graph, best |-> st.best]

\* Lines 123-211: for start_node_obj in start_nodes, sharing graph and best_*.
RECURSIVE Runs(_, _, _, _, _)
Runs(mg, end_name, start_nodes, graph, best) ==
    IF start_nodes = <<>> THEN [graph |-> graph, best |-> best]
    ELSE LET st == Drain(mg, end_name, StartRun(mg, graph, best, Head(start_nodes)))
         IN Runs(mg, end_name, Tail(start_nodes), st.graph, st.best)

\* f"{best_time} minutes" for a float that is a multiple of 2.5.
FormatMinutes(t) == ToString(t \div 10) \o "." \o ToString(t % 10) \o " minutes"

\* self.station_map.get(name): None is the empty sequence.
NodesNamed(mg, name) ==
    IF name \in DOMAIN mg.station_map THEN mg.station_map[name] ELSE <<>>

\* Lines 216-233: the dict returned for the winning candidate.
PathResult(mg, best) ==
    [route |-> [i \in 1..Len(best.best_path_ids) |->
                   mg.station_id_to_obj[best.best_path_ids[i]].name],
     totalStations |-> best.min_total_stations,
     totalFare |-> IF best.min_total_stations > 0
                   THEN best.best_fare + BaseFare ELSE best.best_fare,
     interchanges |-> Range(best.best_interchanges),
     estimatedTime |-> FormatMinutes(best.best_time),
     lineChanges |-> best.best_line_changes]

\* No result: the None find_shortest_path returns.
None == [none |-> TRUE]

\* find_shortest_path(start, end) on graph object mg: the value returned, the
\* locals it ended with and the adjacency map it leaves behind.
find_shortest_path(mg, start_station_name, end_station_name) ==
    LET start_nodes == NodesNamed(mg, start_station_name)
        end_nodes == NodesNamed(mg, end_station_name)
    IN IF start_nodes = <<>> \/ end_nodes = <<>>
       THEN [result |-> None, locals |-> NoBest, graph |-> mg.graph]
       ELSE LET out == Runs(mg, end_station_name, start_nodes, mg.graph, NoBest)
            IN [result |-> IF out.best.best_path_ids = <<>> THEN None
                           ELSE PathResult(mg, out.best),
                locals |-> out.best,
                graph |-> out.graph]

\* ------------------------------------------------------------------
\* The handlers
\* ------------------------------------------------------------------

\* HTTPException(status_code, detail) of a line or station handler: detail keeps
\* the kind of the message.
HTTPException(status_code, kind, subject) ==
    [status |-> status_code, error |-> kind]

\* HTTPException(status_code, detail) of the route handler: detail names the
\* station(s) of the message.
RouteException(status_code, kind, subject) ==
    [status |-> status_code, error |-> kind, subject |-> subject]

\* The search was not called by the last handler.
NotRun == [called |-> FALSE]

\* Lines 382-389: the zero-length RouteResponse.
ZeroRoute(name) ==
    [route |-> <<name>>, totalStations |-> 0, totalFare |-> 0, interchanges |-> {},
     estimatedTime |-> "0 minutes", lineChanges |-> <<>>]

\* db.query(models.Station).filter(models.Station.name == name).first() is a row.
StationExists(sts, name) == \E s \in Range(sts) : s.name = name

\* Rebuilt without the rebuild: the slot keeps the old object.
Rebuilt_stale(old, ls, sts) == old

\* metro_graph = MetroGraph(db) after a commit: the slot gets the new object.
Rebuilt(old, ls, sts) == MetroGraph(ls, sts)

\* POST /api/lines
create_line(name, color) ==
    /\ request' = [op |-> "create_line"]
    /\ search' = NotRun
    /\ IF \E l \in Range(lines) : l.name = name
       THEN /\ response' = HTTPException(409, "line name exists", name)
            /\ UNCHANGED <<lines, stations, line_id_seq, metro_graph>>
       ELSE /\ line_id_seq + 1 \in LineIds
            /\ line_id_seq' = line_id_seq + 1
            /\ lines' = Append(lines, [id |-> line_id_seq + 1, name |-> name,
                                       color |-> color])
            /\ metro_graph' = Rebuilt(metro_graph, lines', stations)
            /\ response' = [status |-> 201, body |-> lines'[Len(lines')]]
            /\ UNCHANGED stations

\* PUT /api/lines/{line_id}
update_line(line_id, name, color) ==
    /\ request' = [op |-> "update_line"]
    /\ search' = NotRun
    /\ IF ~ \E l \in Range(lines) : l.id = line_id
       THEN /\ response' = HTTPException(404, "line not found", line_id)
            /\ UNCHANGED <<lines, stations, line_id_seq, metro_graph>>
       ELSE IF \E l \in Range(lines) : l.name = name /\ l.id # line_id
       THEN /\ response' = HTTPException(409, "line name exists", name)
            /\ UNCHANGED <<lines, stations, line_id_seq, metro_graph>>
       ELSE /\ lines' = [i \in 1..Len(lines) |->
                           IF lines[i].id = line_id
                           THEN [id |-> line_id, name |-> name, color |-> color]
                           ELSE lines[i]]
            /\ metro_graph' = Rebuilt(metro_graph, lines', stations)
            /\ response' = [status |-> 200,
                            body |-> [id |-> line_id, name |-> name, color |-> color]]
            /\ UNCHANGED <<stations, line_id_seq>>

\* DELETE /api/lines/{line_id}
delete_line(line_id) ==
    /\ request' = [op |-> "delete_line"]
    /\ search' = NotRun
    /\ IF ~ \E l \in Range(lines) : l.id = line_id
       THEN /\ response' = HTTPException(404, "line not found", line_id)
            /\ UNCHANGED <<lines, stations, line_id_seq, metro_graph>>
       ELSE IF \E s \in Range(stations) : s.line_id = line_id
       THEN /\ response' = HTTPException(400, "line has stations", line_id)
            /\ UNCHANGED <<lines, stations, line_id_seq, metro_graph>>
       ELSE /\ lines' = SelectSeqBy(lines, {l \in Range(lines) : l.id # line_id})
            /\ metro_graph' = Rebuilt(metro_graph, lines', stations)
            /\ response' = [status |-> 204]
            /\ UNCHANGED <<stations, line_id_seq>>

\* POST /api/lines/{line_id}/stations
add_station_to_line(line_id, name, number, is_interchange) ==
    /\ request' = [op |-> "add_station_to_line"]
    /\ search' = NotRun
    /\ IF ~ \E l \in Range(lines) : l.id = line_id
       THEN /\ response' = HTTPException(404, "line not found", line_id)
            /\ UNCHANGED <<lines, stations, line_id_seq, metro_graph>>
       ELSE LET existing == SelectSeqBy(stations,
                                {s \in Range(stations) :
                                    /\ s.line_id = line_id
                                    /\ (s.name = name
                                        \/ s.station_number_on_line = number)})
            IN IF existing # <<>>
               THEN /\ response' =
                         IF Head(existing).name = name
                         THEN HTTPException(409, "station name exists", name)
                         ELSE HTTPException(409, "station number taken", number)
                    /\ UNCHANGED <<lines, stations, line_id_seq, metro_graph>>
               ELSE /\ Len(stations) < MaxStations
                    /\ stations' = Append(stations,
                                      [id |-> Len(stations) + 1, name |-> name,
                                       line_id |-> line_id,
                                       station_number_on_line |-> number,
                                       is_interchange |-> is_interchange])
                    /\ metro_graph' = Rebuilt(metro_graph, lines, stations')
                    /\ response' = [status |-> 201, body |-> stations'[Len(stations')]]
                    /\ UNCHANGED <<lines, line_id_seq>>

\* SameStation without the shortcut.
SameStation_never(source, destination) == FALSE

\* Lines 381-389: the equal-names shortcut is taken.
SameStation(source, destination) == source = destination

\* POST /api/route/find
find_metro_route(source, destination) ==
    /\ request' = [op |-> "find_metro_route", source |-> source,
                   destination |-> destination]
    /\ UNCHANGED <<lines, stations, line_id_seq>>
    /\ IF SameStation(source, destination)
       THEN /\ response' = [status |-> 200, body |-> ZeroRoute(source)]
            /\ search' = NotRun
            /\ UNCHANGED metro_graph
       ELSE IF ~ StationExists(stations, source)
       THEN /\ response' = RouteException(400, "invalid source station", source)
            /\ search' = NotRun
            /\ UNCHANGED metro_graph
       ELSE IF ~ StationExists(stations, destination)
       THEN /\ response' = RouteException(400, "invalid destination station",
                                         destination)
            /\ search' = NotRun
            /\ UNCHANGED metro_graph
       ELSE LET out == find_shortest_path(metro_graph, source, destination)
            IN /\ metro_graph' = [metro_graph EXCEPT !.graph = out.graph]
               /\ search' = [called |-> TRUE, locals |-> out.locals]
               /\ response' =
                    IF out.result = None
                    THEN RouteException(404, "no route", <<source, destination>>)
                    ELSE [status |-> 200, body |-> out.result]

\* ------------------------------------------------------------------
\* Specifications
\* ------------------------------------------------------------------

\* The state startup_event leaves, for the rows ls and sts found in the tables.
Started(ls, sts) ==
    /\ lines = ls
    /\ stations = sts
    /\ line_id_seq = Len(ls)
    /\ metro_graph = MetroGraph(ls, sts)
    /\ request = [op |-> "startup"]
    /\ search = NotRun
    /\ response = [status |-> 0]

\* The application starts on empty tables.
Init == Started(<<>>, <<>>)

Next ==
    \/ \E n \in LineNames, c \in Colors : create_line(n, c)
    \/ \E l \in LineIds, n \in LineNames, c \in Colors : update_line(l, n, c)
    \/ \E l \in LineIds : delete_line(l)
    \/ \E l \in LineIds, n \in NewStationNames, k \in Numbers, x \in BOOLEAN :
          add_station_to_line(l, n, k, x)
    \/ \E s \in StationNames, d \in StationNames : find_metro_route(s, d)

Spec == Init /\ [][Next]_vars

\* ------------------------------------------------------------------
\* Route queries on the tables the application starts on
\* ------------------------------------------------------------------

\* The station names of the trunk line, in travel order.
Trunk == <<"A", "B", "C", "D">>

Rank(n) == CHOOSE i \in 1..Len(Trunk) : Trunk[i] = n

\* The orders of the names along a branch line: no name twice on one line, the
\* names in the order they have along the trunk.
BranchShapes ==
    UNION {{s \in [1..n -> StationNames] :
               \A i, j \in 1..n : i < j => Rank(s[i]) < Rank(s[j])} :
           n \in 0..MaxBranch}

\* The trunk line: the first n names of Trunk.
TrunkShapes == {SubSeq(Trunk, 1, n) : n \in 0..Len(Trunk)}

\* The rows of one line, numbered 1..n along shape, inserted from id first_id on:
\* in travel order, or (rotated) the second station first and the first one last.
LineRows(shape, line_id, first_id, rotated) ==
    [k \in 1..Len(shape) |->
        LET pos == IF rotated THEN (k % Len(shape)) + 1 ELSE k
        IN [id |-> first_id + k - 1, name |-> shape[pos], line_id |-> line_id,
            station_number_on_line |-> pos, is_interchange |-> FALSE]]

\* Three lines: a branch, the trunk, a branch.
SeedLines ==
    <<[id |-> 1, name |-> "Red", color |-> "c"],
      [id |-> 2, name |-> "Blue", color |-> "c"],
      [id |-> 3, name |-> "Green", color |-> "c"]>>

\* The station rows for the three shapes, none flagged interchange yet.
SeedRows(b1, tr, b3, rotated) ==
    LineRows(b1, 1, 1, FALSE)
        \o LineRows(tr, 2, Len(b1) + 1, rotated)
        \o LineRows(b3, 3, Len(b1) + Len(tr) + 1, FALSE)

\* The rows of name n.
RowsNamed(rows, n) == {i \in 1..Len(rows) : rows[i].name = n}

\* The names several rows share.
SharedNames(rows) == {n \in StationNames : Cardinality(RowsNamed(rows, n)) > 1}

\* The ways to flag the rows: no row at all is flagged, or each shared name has
\* all its rows flagged or all but the last one; a row alone with its name is
\* unflagged.
Flaggings(rows) ==
    [SharedNames(rows) -> {"all", "but_last"}]
        \cup {[n \in SharedNames(rows) |-> "none"]}

Flagged(rows, f) ==
    [i \in 1..Len(rows) |->
        LET n == rows[i].name
        IN [rows[i] EXCEPT !.is_interchange =
               /\ n \in DOMAIN f
               /\ f[n] # "none"
               /\ f[n] = "but_last" => \E j \in RowsNamed(rows, n) : j > i]]

\* The application starts on tables that hold a three-line network; a trunk
\* without branches may have been inserted rotated.
InitRoute ==
    \E b1 \in BranchShapes, tr \in TrunkShapes, b3 \in BranchShapes,
       rotated \in BOOLEAN :
        /\ rotated => (Len(tr) >= 2 /\ b1 = <<>> /\ b3 = <<>>)
        /\ \E f \in Flaggings(SeedRows(b1, tr, b3, rotated)) :
              Started(SeedLines, Flagged(SeedRows(b1, tr, b3, rotated), f))

\* The first route query served after startup.
NextRoute ==
    /\ request.op = "startup"
    /\ \E s \in StationNames, d \in StationNames : find_metro_route(s, d)

SpecRoute == InitRoute /\ [][NextRoute]_vars

\* ------------------------------------------------------------------
\* Properties
\* ------------------------------------------------------------------

Max(a, b) == IF a >= b THEN a ELSE b

RECURSIVE SumSeq(_)
SumSeq(s) == IF s = <<>> THEN 0 ELSE Head(s) + SumSeq(Tail(s))

\* The last handler was a route query that ran the search and returned a route.
RouteReturned ==
    /\ request.op = "find_metro_route"
    /\ search.called
    /\ response.status = 200

\* The winning path of the last search, as node ids.
WinningPath == search.locals.best_path_ids

NodeName(id) == metro_graph.station_id_to_obj[id].name

\* Two consecutive nodes of a path with one name are the two sides of a transfer;
\* a line never holds a name twice, so every other hop is a ride.
RECURSIVE SegmentsOf(_)
SegmentsOf(path) ==
    IF Len(path) <= 1 THEN <<0>>
    ELSE LET init == SegmentsOf(SubSeq(path, 1, Len(path) - 1))
         IN IF NodeName(path[Len(path) - 1]) = NodeName(path[Len(path)])
            THEN Append(init, 0)
            ELSE [init EXCEPT ![Len(init)] = @ + 1]

\* The ride-hop counts of the segments of the winning path.
Segments == SegmentsOf(WinningPath)

\* 10.0 + 2.0*t + 5.0 * sum(max(0, segment_i - 2)): two free hops in every segment.
FareTwoFreeEverywhere(segs) ==
    10 + 2 * (Len(segs) - 1) + 5 * SumSeq([i \in 1..Len(segs) |-> Max(0, segs[i] - 2)])

\* One free hop in the segment that starts at the source, two in every later one.
FareOneFreeFirst(segs) ==
    10 + 2 * (Len(segs) - 1)
       + 5 * SumSeq([i \in 1..Len(segs) |->
                        Max(0, segs[i] - (IF i = 1 THEN 1 ELSE 2))])

NodesOf(n) == {s.id : s \in {r \in Range(stations) : r.name = n}}

\* The edges out of a node of adjacency map g.
EdgesFrom(g, id) == IF id \in DOMAIN g THEN Range(g[id]) ELSE {}

\* The nodes reachable from S without riding.
RECURSIVE TransferClosure(_, _)
TransferClosure(g, S) ==
    LET more == UNION {{e.to : e \in {x \in EdgesFrom(g, a) : x.stations = 0}} : a \in S}
    IN IF more \subseteq S THEN S ELSE TransferClosure(g, S \cup more)

\* The least number of ride edges on a path from reached (the nodes within k ride
\* edges of the sources) to a target; Infinity when there is no path.
RECURSIVE LeastRides(_, _, _, _)
LeastRides(g, reached, targets, k) ==
    IF reached \cap targets # {} THEN k
    ELSE LET ride == UNION {{e.to : e \in {x \in EdgesFrom(g, a) : x.stations = 1}} :
                            a \in reached}
             next == TransferClosure(g, reached \cup ride)
         IN IF next = reached THEN Infinity ELSE LeastRides(g, next, targets, k + 1)

\* The least number of ride edges from a node named s to a node named d.
MinRides(s, d) ==
    LeastRides(metro_graph.graph, TransferClosure(metro_graph.graph, NodesOf(s)),
               NodesOf(d), 0)

\* C3: for two distinct known names, totalStations of the returned route is the
\* least number of ride edges over all graph paths from a source-named node to a
\* destination-named node.
C3_MinimumStations ==
    RouteReturned =>
        response.body.totalStations = MinRides(request.source, request.destination)

\* A route was returned whose station count the source's first start node cannot
\* attain: the run from a later start node found it.
C3_Witness ==
    /\ RouteReturned
    /\ Len(metro_graph.station_map[request.source]) > 1
    /\ WinningPath[1] # metro_graph.station_map[request.source][1].id
    /\ response.body.totalStations >= 1

\* The last handler was the route query.
RouteQueried == request.op = "find_metro_route"

Known(name) == StationExists(stations, name)

\* C4 as stated: a route query whose source or destination names no station row
\* ends in UnknownStation (400) naming a missing station, whether or not the two
\* names are equal.
C4_UnknownStationAlways ==
    (RouteQueried /\ (~ Known(request.source) \/ ~ Known(request.destination)))
        => /\ response.status = 400
           /\ response.subject \in
                 {n \in {request.source, request.destination} : ~ Known(n)}

C6_SameStationZeroRoute ==
    (RouteQueried /\ request.source = request.destination /\ Known(request.source))
        => /\ response =
                [status |-> 200,
                 body |-> [route |-> <<request.source>>, totalStations |-> 0,
                           totalFare |-> 0, interchanges |-> {},
                           estimatedTime |-> "0 minutes", lineChanges |-> <<>>]]
           /\ ~ search.called

\* A known station was queried against itself.
C6_Witness ==
    /\ RouteQueried
    /\ request.source = request.destination
    /\ Known(request.source)
    /\ response.status = 200

\* The edge list of a node of the published graph.
Adjacency(id) ==
    IF id \in DOMAIN metro_graph.graph THEN metro_graph.graph[id] ELSE <<>>

IsTransfer(e) == "line_change" \in DOMAIN e

\* The places of the transfer (ride) edges a -> b in a's edge list.
TransferEdgesAt(a, b) ==
    {k \in 1..Len(Adjacency(a)) : Adjacency(a)[k].to = b /\ IsTransfer(Adjacency(a)[k])}

RideEdgesAt(a, b) ==
    {k \in 1..Len(Adjacency(a)) : Adjacency(a)[k].to = b /\ ~ IsTransfer(Adjacency(a)[k])}

\* C7: a transfer edge a -> b exists exactly when a and b have one name, are on
\* different lines and every row of that name is flagged interchange; then there
\* is exactly one, with stationDelta 0, time 5.0 and fare 2.0 (and, a and b being
\* any two rows, one in each direction).
C7_TransferEdges ==
    \A a, b \in Range(stations) :
        LET ks == TransferEdgesAt(a.id, b.id)
        IN /\ ks # {} <=>
                 /\ a.name = b.name
                 /\ a.line_id # b.line_id
                 /\ \A s \in Range(stations) : s.name = a.name => s.is_interchange
           /\ ks # {} =>
                 /\ Cardinality(ks) = 1
                 /\ \A k \in ks :
                       /\ Adjacency(a.id)[k].stations = 0
                       /\ Adjacency(a.id)[k].time = 50
                       /\ Adjacency(a.id)[k].fare = 2

\* One name is on three lines with every row flagged (and linked by transfer
\* edges), another name is on two lines with one row flagged only.
C7_Witness ==
    /\ \E a, b, c \in Range(stations) :
          /\ a.name = b.name /\ b.name = c.name
          /\ a.line_id < b.line_id /\ b.line_id < c.line_id
          /\ TransferEdgesAt(a.id, c.id) # {}
    /\ \E a, b \in Range(stations) :
          /\ a.name = b.name /\ a.line_id # b.line_id
          /\ a.is_interchange /\ ~ b.is_interchange

\* The rows of a line.
RowsOfLine(l) == {s \in Range(stations) : s.line_id = l}

Abs(x) == IF x < 0 THEN -x ELSE x

\* C8: a line whose N >= 1 stations are numbered 1..N has exactly N-1 ride-edge
\* pairs, one edge in each direction between the stations whose numbers differ by
\* one (stationDelta 1, time 2.5) and none elsewhere, and a transfer edge touches
\* one of its nodes only if a row of another line has that name and is flagged
\* interchange like it.
C8_RideEdges ==
    \A l \in Range(lines) :
        LET S == RowsOfLine(l.id)
        IN (S # {} /\ {s.station_number_on_line : s \in S} = 1..Cardinality(S)) =>
              /\ \A a, b \in S :
                    Cardinality(RideEdgesAt(a.id, b.id)) =
                        IF Abs(a.station_number_on_line - b.station_number_on_line) = 1
                        THEN 1 ELSE 0
              /\ Cardinality({p \in S \X S : RideEdgesAt(p[1].id, p[2].id) # {}})
                    = 2 * (Cardinality(S) - 1)
              /\ \A a \in S : \A k \in 1..Len(Adjacency(a.id)) :
                    LET e == Adjacency(a.id)[k]
                    IN IF IsTransfer(e)
                       THEN \E o \in Range(stations) :
                               /\ o.id = e.to
                               /\ o.name = a.name
                               /\ o.line_id # a.line_id
                               /\ o.is_interchange /\ a.is_interchange
                       ELSE /\ e.to \in {s.id : s \in S}
                            /\ e.stations = 1
                            /\ e.time = 25

\* A line of four stations whose rows were not inserted in the order of their
\* numbers carries its three ride-edge pairs.
C8_Witness ==
    \E l \in Range(lines) :
        /\ Cardinality(RowsOfLine(l.id)) = 4
        /\ \E a, b \in RowsOfLine(l.id) :
              /\ a.id < b.id
              /\ a.station_number_on_line > b.station_number_on_line
        /\ Cardinality({p \in RowsOfLine(l.id) \X RowsOfLine(l.id) :
                           RideEdgesAt(p[1].id, p[2].id) # {}}) = 6

\* C9 as stated: a route query leaves the published graph as it was: its nodes,
\* its adjacency map (key set and edge lists) and its name index.
C9_QueryLeavesGraphUnchanged ==
    [][request'.op = "find_metro_route" => metro_graph' = metro_graph]_vars

\* The published graph agrees with the graph built from the rows: same name index,
\* same nodes, same line names, same edge list for every node, no key that is not
\* a node.
SnapshotBuiltFromRows ==
    LET built == MetroGraph(lines, stations)
    IN /\ metro_graph.station_map = built.station_map
       /\ metro_graph.station_id_to_obj = built.station_id_to_obj
       /\ metro_graph.line_names = built.line_names
       /\ DOMAIN metro_graph.graph \subseteq DOMAIN built.station_id_to_obj
       /\ \A id \in DOMAIN built.station_id_to_obj :
             Adjacency(id) = IF id \in DOMAIN built.graph THEN built.graph[id] ELSE <<>>

\* A line or station handler committed a change.
TopologyChanged ==
    /\ request'.op \in {"create_line", "update_line", "delete_line",
                        "add_station_to_line"}
    /\ response'.status \in {200, 201, 204}

\* C10: whatever the order of topology changes and route queries, the graph a
\* query reads is a completely built one (every node's edge list is the one built
\* from the committed rows), and each successful topology change replaces the
\* current graph, in the step that commits it, by the graph built from the rows
\* as committed.
C10_SnapshotPublishedWhole ==
    /\ []SnapshotBuiltFromRows
    /\ [][TopologyChanged => metro_graph' = MetroGraph(lines', stations')]_vars

\* A second station was added and the published graph links the two rows by
\* transfer edges.
C10_Witness ==
    /\ request.op = "add_station_to_line"
    /\ response.status = 201
    /\ Len(stations) = 2
    /\ TransferEdgesAt(1, 2) # {}

\* The rows handed to a build are malformed: a station row whose line_id is the id
\* of no line row, a negative station_number_on_line, or two rows of one line
\* with the same station_number_on_line.
Malformed(ls, sts) ==
    \/ \E s \in Range(sts) : ~ \E l \in Range(ls) : l.id = s.line_id
    \/ \E s \in Range(sts) : s.station_number_on_line < 0
    \/ \E i, j \in 1..Len(sts) :
          /\ i # j
          /\ sts[i].line_id = sts[j].line_id
          /\ sts[i].station_number_on_line = sts[j].station_number_on_line

\* C11 as stated: a line or station request whose rows, as handed to the build,
\* are malformed is rejected, and the graph published before the request stays
\* the current one.
C11_MalformedBuildKeepsSnapshot ==
    [][(/\ request'.op \in {"create_line", "update_line", "delete_line",
                            "add_station_to_line"}
        /\ Malformed(lines', stations'))
          => /\ metro_graph' = metro_graph
             /\ response'.status \notin {200, 201, 204}]_vars

\* The start nodes of the last query, in the order of the name index.
StartNodes == NodesNamed(metro_graph, request.source)

\* The least number of ride edges from the k-th start node alone to a node named
\* as the destination; Infinity when none is reachable from it.
RidesFrom(k) ==
    LeastRides(metro_graph.graph,
               TransferClosure(metro_graph.graph, {StartNodes[k].id}),
               NodesOf(request.destination), 0)

\* The first start node, in name-index order, whose run attains the least count.
FirstBestRun ==
    CHOOSE k \in 1..Len(StartNodes) :
        /\ \A j \in 1..Len(StartNodes) : RidesFrom(k) <= RidesFrom(j)
        /\ \A j \in 1..(k - 1) : RidesFrom(j) > RidesFrom(k)

\* The best_* holders the run from the k-th start node ends with when it starts
\* from empty holders: the candidate of that run.
RunAlone(k) ==
    Drain(metro_graph, request.destination,
          StartRun(metro_graph, metro_graph.graph, NoBest, StartNodes[k])).best

Hops(path) == 1..(Len(path) - 1)

\* The hops of a path that a transfer edge of the graph carries, and those a ride
\* edge carries.
TransferHops(path) == {i \in Hops(path) : TransferEdgesAt(path[i], path[i + 1]) # {}}

RideHops(path) == {i \in Hops(path) : RideEdgesAt(path[i], path[i + 1]) # {}}

\* The line-change record of a transfer hop: the names of the lines of the two
\* rows, and the name of the station left.
ChangeAt(path, i) ==
    [from |-> LineNameOf(lines, metro_graph.station_id_to_obj[path[i]].line_id),
     to |-> LineNameOf(lines, metro_graph.station_id_to_obj[path[i + 1]].line_id),
     at |-> NodeName(path[i])]

\* The line-change records of the transfer hops among the first n hops of a
\* path, in the order of the path.
RECURSIVE ChangesOf(_, _)
ChangesOf(path, n) ==
    IF n = 0 THEN <<>>
    ELSE IF n \in TransferHops(path)
         THEN Append(ChangesOf(path, n - 1), ChangeAt(path, n))
         ELSE ChangesOf(path, n - 1)

====
